---- MODULE Spec2Model ----
(***************************************************************************)
(* Model of stock.py: download_data, compute_indicators, find_crossovers,  *)
(* print_summary, plot_data and main.                                      *)
(*                                                                         *)
(* A DataFrame is a record of aligned columns (sequences).  Timestamps are *)
(* the 0-based day numbers 0..N-1, so column position p holds timestamp    *)
(* p-1.  Floating point values are exact rationals [nan, num, den] with    *)
(* den > 0; NaN is a value of its own.  Close prices are positive integers.*)
(* Text is a sequence of string tokens, an f-string is their concatenation.*)
(***************************************************************************)
EXTENDS Integers, Sequences, FiniteSets, TLC

----------------------------------------------------------------------------
(* Bounds of the model *)

\* rows of a provider series that are chosen freely; later rows repeat the last step
MaxPrefix == 4
\* longest provider series in SpecInd
MaxN == 60
\* longest provider series in Spec
MaxRows == 3
\* longest frame handed to find_crossovers / plot_data in SpecCross
MaxLen == 8

(* Program constants *)
MA_20_window == 20
MA_50_window == 50
min_periods == 1
tail_n == 5
round_decimals == 4
last_crossovers == 3

(* Input domains *)
Tickers == {"AAPL", "TCS.NS"}
Periods == {"1y", "6mo"}
None == "None"
CsvPaths == {None, "data.csv"}
FigPaths == {None, "report.png"}
Causes == {"timeout"}
PriceLevels == {100, 101, 102}
BasePrice == CHOOSE c \in PriceLevels : \A d \in PriceLevels : c <= d

VARIABLES
    args,         \* parsed command line: ticker, period, save_fig, save_csv, no_show
    market,       \* the close prices the provider holds for the ticker
    provider,     \* what yf.download did: "pending", "raised", "none", "frame"
    pc,           \* position in the run
    df,           \* the DataFrame of main
    stdout,       \* lines printed on the data stream
    stderr,       \* lines printed on the diagnostic stream
    exit_status,  \* None while running, then 0 or 1
    csv_file,     \* None or the frame written by to_csv
    chart,        \* None or what plot_data handed to matplotlib
    crossovers    \* None or the (bullish, bearish) result of find_crossovers

vars == <<args, market, provider, pc, df, stdout, stderr, exit_status,
          csv_file, chart, crossovers>>

----------------------------------------------------------------------------
(* Floats *)

Rat(n, d) == [nan |-> FALSE, num |-> n, den |-> d]
NaN == [nan |-> TRUE, num |-> 0, den |-> 1]

\* a - b
FSub(a, b) ==
    IF a.nan \/ b.nan THEN NaN
    ELSE Rat(a.num * b.den - b.num * a.den, a.den * b.den)

\* x > 0, x < 0, x == k: every comparison with NaN is False
FGt0(x) == ~x.nan /\ x.num > 0
FLt0(x) == ~x.nan /\ x.num < 0
FEqInt(x, k) == ~x.nan /\ x.num = k * x.den

\* a == b as numbers
FEq(a, b) == ~a.nan /\ ~b.nan /\ a.num * b.den = b.num * a.den
FLe(a, b) == ~a.nan /\ ~b.nan /\ a.num * b.den <= b.num * a.den
FLt(a, b) == ~a.nan /\ ~b.nan /\ a.num * b.den < b.num * a.den

Max(a, b) == IF a >= b THEN a ELSE b
Min(a, b) == IF a <= b THEN a ELSE b

----------------------------------------------------------------------------
(* DataFrame and the pandas operations the program uses *)

Frame(index, close, ma20, ma50, ret) ==
    [index |-> index, Close |-> close, MA_20 |-> ma20, MA_50 |-> ma50,
     Daily_Return |-> ret]

EmptyFrame == Frame(<<>>, <<>>, <<>>, <<>>, <<>>)

\* the frame the provider returns for a close series: timestamps 0..N-1
PriceFrame(closes) ==
    Frame([p \in 1..Len(closes) |-> p - 1], closes, <<>>, <<>>, <<>>)

empty(d) == Len(d.index) = 0

\* one window's mean: NaN below minp observations
calc_mean(minp, nobs, sum_x) ==
    IF nobs >= minp /\ nobs > 0 THEN Rat(sum_x, nobs) ELSE NaN

\* Series.rolling(window, min_periods).mean(): position p adds values[p] to the
\* running sum and removes values[p - window] once the window is full
RECURSIVE roll_mean(_, _, _, _, _, _, _)
roll_mean(values, window, minp, p, sum_x, nobs, out) ==
    IF p > Len(values) THEN out
    ELSE LET full   == p > window
             sum2   == sum_x + values[p] - (IF full THEN values[p - window] ELSE 0)
             nobs2  == nobs + 1 - (IF full THEN 1 ELSE 0)
         IN  roll_mean(values, window, minp, p + 1, sum2, nobs2,
                       Append(out, calc_mean(minp, nobs2, sum2)))

rolling_mean(values, window, minp) == roll_mean(values, window, minp, 1, 0, 0, <<>>)

\* a slip: the change divided by the current value instead of the previous one
pct_change_over_current(values) ==
    [p \in 1..Len(values) |->
        IF p = 1 THEN NaN
        ELSE FSub(Rat(1, 1), Rat(values[p - 1], values[p]))]

\* Series.pct_change(): values / values.shift(1) - 1, NaN at the first row
pct_change(values) ==
    [p \in 1..Len(values) |->
        IF p = 1 THEN NaN
        ELSE FSub(Rat(values[p], values[p - 1]), Rat(1, 1))]

\* Series.dropna()
dropna(s) == SelectSeq(s, LAMBDA x : ~x.nan)

\* Series.tail(n) and the slice [-n:]
tail(s, n) == SubSeq(s, Max(1, Len(s) - n + 1), Len(s))

RECURSIVE Pow10(_)
Pow10(k) == IF k = 0 THEN 1 ELSE 10 * Pow10(k - 1)

\* round(x, k): to the nearest multiple of 10^-k, halves to even
round(x, k) ==
    IF x.nan THEN NaN
    ELSE LET scaled == x.num * Pow10(k)
             q      == scaled \div x.den
             r      == scaled % x.den
             up     == 2 * r > x.den \/ (2 * r = x.den /\ q % 2 = 1)
         IN  Rat(IF up THEN q + 1 ELSE q, Pow10(k))

\* index[mask]: the timestamps whose mask entry is True, in index order
RECURSIVE mask_index(_, _, _)
mask_index(index, mask, p) ==
    IF p > Len(index) THEN <<>>
    ELSE (IF mask[p] THEN <<index[p]>> ELSE <<>>) \o mask_index(index, mask, p + 1)

\* df.loc[stamps, column]
loc(d, stamps, column) ==
    [j \in 1..Len(stamps) |->
        column[CHOOSE p \in 1..Len(d.index) : d.index[p] = stamps[j]]]

RECURSIVE SumSeq(_, _)
SumSeq(s, p) == IF p > Len(s) THEN 0 ELSE s[p] + SumSeq(s, p + 1)

SeqMin(s) == CHOOSE x \in {s[p] : p \in 1..Len(s)} : \A q \in 1..Len(s) : x <= s[q]
SeqMax(s) == CHOOSE x \in {s[p] : p \in 1..Len(s)} : \A q \in 1..Len(s) : x >= s[q]

----------------------------------------------------------------------------
(* The program's functions *)

\* a slip: the messages do not name the ticker
download_data_no_ticker(ticker, period, outcome, cause, closes) ==
    IF outcome = "raised"
    THEN [raised |-> TRUE, message |-> <<"Failed to download data: ", cause>>,
          frame |-> EmptyFrame]
    ELSE IF outcome = "none" \/ empty(PriceFrame(closes))
    THEN [raised |-> TRUE, message |-> <<"No data found with period='", period, "'.">>,
          frame |-> EmptyFrame]
    ELSE [raised |-> FALSE, message |-> <<>>, frame |-> PriceFrame(closes)]

\* download_data: [raised, message, frame]; outcome is what yf.download did
download_data(ticker, period, outcome, cause, closes) ==
    IF outcome = "raised"
    THEN [raised |-> TRUE,
          message |-> <<"Failed to download data for ", ticker, ": ", cause>>,
          frame |-> EmptyFrame]
    ELSE IF outcome = "none" \/ empty(PriceFrame(closes))
    THEN [raised |-> TRUE,
          message |-> <<"No data found for ticker '", ticker, "' with period='",
                        period, "'.">>,
          frame |-> EmptyFrame]
    ELSE [raised |-> FALSE, message |-> <<>>, frame |-> PriceFrame(closes)]

\* a slip: min_periods left at its default, the window size
compute_indicators_default_min_periods(d) ==
    Frame(d.index, d.Close,
          rolling_mean(d.Close, MA_20_window, MA_20_window),
          rolling_mean(d.Close, MA_50_window, MA_50_window),
          pct_change(d.Close))

\* a slip: rolling(...).sum() for the short average
compute_indicators_rolling_sum(d) ==
    Frame(d.index, d.Close,
          [p \in 1..Len(d.Close) |->
              Rat(rolling_mean(d.Close, MA_20_window, min_periods)[p].num, 1)],
          rolling_mean(d.Close, MA_50_window, min_periods),
          pct_change(d.Close))

\* a slip: a 10-row window for the short average
compute_indicators_window_10(d) ==
    Frame(d.index, d.Close,
          rolling_mean(d.Close, 10, min_periods),
          rolling_mean(d.Close, MA_50_window, min_periods),
          pct_change(d.Close))

compute_indicators(d) ==
    Frame(d.index, d.Close,
          rolling_mean(d.Close, MA_20_window, min_periods),
          rolling_mean(d.Close, MA_50_window, min_periods),
          pct_change(d.Close))

\* lambda x: 1 if x > 0 else (-1 if x < 0 else 0)
sign_of(x) == IF FGt0(x) THEN 1 ELSE IF FLt0(x) THEN -1 ELSE 0

\* Series.diff() of an integer series: NaN first, then the step
series_diff(s) ==
    [p \in 1..Len(s) |-> IF p = 1 THEN NaN ELSE Rat(s[p] - s[p - 1], 1)]

\* find_crossovers, lines 43-48: the signal series
crossover_signal(d) ==
    LET ma_short == d.MA_20
        ma_long  == d.MA_50
        diff     == [p \in 1..Len(d.index) |-> FSub(ma_short[p], ma_long[p])]
        sign     == [p \in 1..Len(d.index) |-> sign_of(diff[p])]
    IN  series_diff(sign)

\* a slip: the two directions exchanged
find_crossovers_swapped(d) ==
    LET signal == crossover_signal(d)
    IN  [bullish |-> mask_index(d.index,
                        [p \in 1..Len(d.index) |-> FEqInt(signal[p], -2)], 1),
         bearish |-> mask_index(d.index,
                        [p \in 1..Len(d.index) |-> FEqInt(signal[p], 2)], 1)]

\* a slip: signal > 0 and signal < 0 instead of == 2 and == -2
find_crossovers_any_change(d) ==
    LET signal == crossover_signal(d)
    IN  [bullish |-> mask_index(d.index,
                        [p \in 1..Len(d.index) |-> FGt0(signal[p])], 1),
         bearish |-> mask_index(d.index,
                        [p \in 1..Len(d.index) |-> FLt0(signal[p])], 1)]

\* a slip: bearish taken where abs(signal) == 2
find_crossovers_abs(d) ==
    LET signal == crossover_signal(d)
    IN  [bullish |-> mask_index(d.index,
                        [p \in 1..Len(d.index) |-> FEqInt(signal[p], 2)], 1),
         bearish |-> mask_index(d.index,
                        [p \in 1..Len(d.index) |->
                            FEqInt(signal[p], 2) \/ FEqInt(signal[p], -2)], 1)]

find_crossovers(d) ==
    LET signal == crossover_signal(d)
    IN  [bullish |-> mask_index(d.index,
                        [p \in 1..Len(d.index) |-> FEqInt(signal[p], 2)], 1),
         bearish |-> mask_index(d.index,
                        [p \in 1..Len(d.index) |-> FEqInt(signal[p], -2)], 1)]

\* Close.describe(): count, mean, min and max of the column
describe(s) ==
    [count |-> Len(s), mean |-> calc_mean(1, Len(s), SumSeq(s, 1)),
     min |-> SeqMin(s), max |-> SeqMax(s)]

\* print_summary: the block it prints.  The volatility is std() of the
\* Daily_Return column, which skips NaN: vol_sample is the sample it is taken over.
print_summary(d, ticker) ==
    [kind |-> "summary",
     tokens |-> <<"=== ", ticker, " SUMMARY">>,
     data |-> [first_date |-> d.index[1],
               last_date  |-> d.index[Len(d.index)],
               last_close |-> d.Close[Len(d.index)],
               ma_20      |-> d.MA_20[Len(d.index)],
               ma_50      |-> d.MA_50[Len(d.index)],
               describe   |-> describe(d.Close),
               last_returns |-> [j \in 1..Len(tail(dropna(d.Daily_Return), tail_n)) |->
                                  round(tail(dropna(d.Daily_Return), tail_n)[j],
                                        round_decimals)],
               vol_sample |-> dropna(d.Daily_Return)]]

NoScatter == [called |-> FALSE, x |-> <<>>, y |-> <<>>]

\* a slip: the slice [:3], the first three
scatter_first(d, stamps) ==
    IF Len(stamps) # 0
    THEN [called |-> TRUE, x |-> SubSeq(stamps, 1, Min(Len(stamps), last_crossovers)),
          y |-> loc(d, SubSeq(stamps, 1, Min(Len(stamps), last_crossovers)), d.Close)]
    ELSE NoScatter

\* ax.scatter(stamps[-3:], df.loc[stamps[-3:], 'Close']) when stamps is not empty
scatter_last(d, stamps) ==
    IF Len(stamps) # 0
    THEN [called |-> TRUE, x |-> tail(stamps, last_crossovers),
          y |-> loc(d, tail(stamps, last_crossovers), d.Close)]
    ELSE NoScatter

\* plot_data: what the chart receives, and the crossovers it computed
plot_data(d, ticker, save_fig, show) ==
    LET x == find_crossovers(d)
    IN  [crossovers |-> x,
         chart |-> [drawn |-> TRUE, close |-> d.Close, ma_20 |-> d.MA_20, ma_50 |-> d.MA_50,
                    bullish |-> scatter_last(d, x.bullish),
                    bearish |-> scatter_last(d, x.bearish),
                    title |-> ticker,
                    saved_to |-> save_fig,
                    shown |-> show],
         printed |-> IF save_fig # None
                     THEN <<[kind |-> "saved", tokens |-> <<"Saved figure to ", save_fig>>,
                             data |-> <<>>]>>
                     ELSE <<>>]

----------------------------------------------------------------------------
(* The run of main *)

Args == [ticker : Tickers, period : Periods, save_fig : FigPaths,
         save_csv : CsvPaths, no_show : BOOLEAN]

NoCsv == [written |-> FALSE, path |-> None, frame |-> EmptyFrame]
NoChart == [drawn |-> FALSE, close |-> <<>>, ma_20 |-> <<>>, ma_50 |-> <<>>,
            bullish |-> NoScatter, bearish |-> NoScatter, title |-> None,
            saved_to |-> None, shown |-> FALSE]
NoCrossovers == [called |-> FALSE, bullish |-> <<>>, bearish |-> <<>>]

Line(kind, tokens) == [kind |-> kind, tokens |-> tokens, data |-> <<>>]

Start(a) ==
    /\ args = a
    /\ market = <<>>
    /\ provider = "pending"
    /\ pc = "provider"
    /\ df = EmptyFrame
    /\ stdout = <<>>
    /\ stderr = <<>>
    /\ exit_status = "running"
    /\ csv_file = NoCsv
    /\ chart = NoChart
    /\ crossovers = NoCrossovers

Init == \E a \in Args : Start(a)

\* the closes the provider's series can continue with: any price level while the
\* series is short, and from the third row on the last step repeated
NextCloses(closes) ==
    (IF Len(closes) < MaxPrefix THEN PriceLevels ELSE {})
    \cup (IF Len(closes) >= 2
          THEN {c \in {2 * closes[Len(closes)] - closes[Len(closes) - 1]} : c >= 1}
          ELSE {})

\* the provider's history of the ticker gains a trading day
ProviderRow(limit) ==
    /\ pc = "provider"
    /\ Len(market) < limit
    /\ \E c \in NextCloses(market) : market' = Append(market, c)
    /\ UNCHANGED <<args, provider, pc, df, stdout, stderr, exit_status, csv_file,
                   chart, crossovers>>

\* main, lines 108-112: download_data, and on any exception the message and exit(1)
Download ==
    /\ pc = "provider"
    /\ \E outcome \in {"raised", "none", "frame"}, cause \in Causes :
          LET r == download_data(args.ticker, args.period, outcome, cause, market)
          IN  /\ provider' = IF outcome = "frame" /\ market = <<>> THEN "empty"
                             ELSE outcome
              /\ IF r.raised
                 THEN /\ stdout' = Append(stdout, Line("error", <<"Error: ">> \o r.message))
                      /\ exit_status' = "1"
                      /\ pc' = "exit"
                      /\ df' = df
                 ELSE /\ df' = r.frame
                      /\ pc' = "downloaded"
                      /\ UNCHANGED <<stdout, exit_status>>
    /\ UNCHANGED <<args, market, stderr, csv_file, chart, crossovers>>

\* main, line 114
ComputeIndicators ==
    /\ pc = "downloaded"
    /\ df' = compute_indicators(df)
    /\ pc' = "computed"
    /\ UNCHANGED <<args, market, provider, stdout, stderr, exit_status, csv_file,
                   chart, crossovers>>

\* main, line 115
PrintSummary ==
    /\ pc = "computed"
    /\ stdout' = Append(stdout, print_summary(df, args.ticker))
    /\ pc' = "summarised"
    /\ UNCHANGED <<args, market, provider, df, stderr, exit_status, csv_file,
                   chart, crossovers>>

\* main, lines 117-119
SaveCsv ==
    /\ pc = "summarised"
    /\ IF args.save_csv # None
       THEN /\ csv_file' = [written |-> TRUE, path |-> args.save_csv, frame |-> df]
            /\ stdout' = Append(stdout, Line("saved", <<"Saved data to ", args.save_csv>>))
       ELSE UNCHANGED <<csv_file, stdout>>
    /\ pc' = "saved"
    /\ UNCHANGED <<args, market, provider, df, stderr, exit_status, chart, crossovers>>

\* main, line 121, and the return of main
PlotData ==
    /\ pc = "saved"
    /\ LET r == plot_data(df, args.ticker, args.save_fig, ~args.no_show)
       IN  /\ chart' = r.chart
           /\ crossovers' = [called |-> TRUE, bullish |-> r.crossovers.bullish,
                             bearish |-> r.crossovers.bearish]
           /\ stdout' = stdout \o r.printed
    /\ pc' = "done"
    /\ exit_status' = "0"
    /\ UNCHANGED <<args, market, provider, df, stderr, csv_file>>

Next ==
    \/ ProviderRow(MaxRows)
    \/ Download
    \/ ComputeIndicators
    \/ PrintSummary
    \/ SaveCsv
    \/ PlotData

Spec == Init /\ [][Next]_vars

----------------------------------------------------------------------------
(* The indicator pipeline over long provider series *)

IndArgs == [ticker |-> "AAPL", period |-> "1y", save_fig |-> "report.png",
            save_csv |-> "data.csv", no_show |-> TRUE]

InitInd == Start(IndArgs)

NextInd ==
    \/ ProviderRow(MaxN)
    \/ Download
    \/ ComputeIndicators
    \/ PrintSummary
    \/ SaveCsv
    \/ PlotData

SpecInd == InitInd /\ [][NextInd]_vars

----------------------------------------------------------------------------
(* find_crossovers and plot_data applied to arbitrary pairs of average series *)

\* (MA_20, MA_50) values of a row: below, equal (in two representations), above
MAPairs == {<<Rat(3, 2), Rat(2, 1)>>, <<Rat(4, 2), Rat(2, 1)>>,
            <<Rat(7, 3), Rat(9, 4)>>}

InitCross ==
    /\ args = IndArgs
    /\ market = <<>>
    /\ provider = "frame"
    /\ pc = "frame"
    /\ df = EmptyFrame
    /\ stdout = <<>>
    /\ stderr = <<>>
    /\ exit_status = "running"
    /\ csv_file = NoCsv
    /\ chart = NoChart
    /\ crossovers = NoCrossovers

\* the frame under construction gains a row
FrameRow ==
    /\ pc = "frame"
    /\ Len(df.index) < MaxLen
    /\ \E m \in MAPairs :
          df' = Frame(Append(df.index, Len(df.index)),
                      Append(df.Close, BasePrice + Len(df.index)),
                      Append(df.MA_20, m[1]), Append(df.MA_50, m[2]),
                      Append(df.Daily_Return, NaN))
    /\ UNCHANGED <<args, market, provider, pc, stdout, stderr, exit_status, csv_file,
                   chart, crossovers>>

CallFindCrossovers ==
    /\ pc = "frame"
    /\ LET x == find_crossovers(df)
       IN  crossovers' = [called |-> TRUE, bullish |-> x.bullish, bearish |-> x.bearish]
    /\ pc' = "crossed"
    /\ UNCHANGED <<args, market, provider, df, stdout, stderr, exit_status, csv_file,
                   chart>>

CallPlotData ==
    /\ pc = "frame"
    /\ LET r == plot_data(df, args.ticker, args.save_fig, ~args.no_show)
       IN  /\ chart' = r.chart
           /\ crossovers' = [called |-> TRUE, bullish |-> r.crossovers.bullish,
                             bearish |-> r.crossovers.bearish]
           /\ stdout' = stdout \o r.printed
    /\ pc' = "plotted"
    /\ UNCHANGED <<args, market, provider, df, stderr, exit_status, csv_file>>

NextCross ==
    \/ FrameRow
    \/ CallFindCrossovers
    \/ CallPlotData

SpecCross == InitCross /\ [][NextCross]_vars

----------------------------------------------------------------------------
(* Properties *)

InSeq(x, s) == \E j \in 1..Len(s) : s[j] = x
StrictlyAscending(s) == \A j \in 1..Len(s) - 1 : s[j] < s[j + 1]

N == Len(df.index)

\* close[lo] + ... + close[hi], 0-based inclusive
RECURSIVE WindowSum(_, _, _)
WindowSum(close, lo, hi) ==
    IF lo > hi THEN 0 ELSE close[lo + 1] + WindowSum(close, lo + 1, hi)

\* x is defined and is the arithmetic mean of close[max(0, i - back)..i]
IsTrailingMean(x, close, i, back) ==
    /\ ~x.nan
    /\ x.num * (i - Max(0, i - back) + 1) = x.den * WindowSum(close, Max(0, i - back), i)

\* C1: after compute_indicators, for every index i of a series of N >= 1 closes,
\* MA_20[i] is defined and is the mean of close[max(0,i-19)..i], and MA_50[i] is
\* defined and is the mean of close[max(0,i-49)..i].
C1_TrailingMeans ==
    pc = "computed" =>
        /\ N >= 1
        /\ Len(df.MA_20) = N /\ Len(df.MA_50) = N
        /\ \A i \in 0..N - 1 :
              /\ IsTrailingMean(df.MA_20[i + 1], df.Close, i, 19)
              /\ IsTrailingMean(df.MA_50[i + 1], df.Close, i, 49)

\* a series longer than both windows whose two averages differ at the end
C1_Witness ==
    /\ pc = "computed"
    /\ N > 50
    /\ ~FEq(df.MA_20[N], df.MA_50[N])
    /\ df.Close[1] # df.Close[2]

\* sign of MA_20 - MA_50 at 0-based index i, by direct comparison
Below(i) == FLt(df.MA_20[i + 1], df.MA_50[i + 1])
Above(i) == FLt(df.MA_50[i + 1], df.MA_20[i + 1])
Tie(i) == FEq(df.MA_20[i + 1], df.MA_50[i + 1])

\* the signs of the frame's differences are exactly the listed ones
SignsAre(signs) ==
    /\ N = Len(signs)
    /\ \A i \in 0..N - 1 :
          /\ signs[i + 1] = -1 => Below(i)
          /\ signs[i + 1] = 0 => Tie(i)
          /\ signs[i + 1] = 1 => Above(i)

\* C2: find_crossovers reports index i as bullish iff i >= 1 and MA_20 is below
\* MA_50 at i-1 and above it at i, as bearish iff i >= 1 and it is above at i-1 and
\* below at i; index 0 is never reported; signs [-1,-1,+1,+1,-1] give bullish = [2]
\* and bearish = [4].
C2_CrossoverIff ==
    pc = "crossed" =>
        /\ \A i \in 0..N - 1 :
              /\ InSeq(i, crossovers.bullish) <=> (i >= 1 /\ Below(i - 1) /\ Above(i))
              /\ InSeq(i, crossovers.bearish) <=> (i >= 1 /\ Above(i - 1) /\ Below(i))
        /\ \A t \in 0..MaxLen + 1 :
              (InSeq(t, crossovers.bullish) \/ InSeq(t, crossovers.bearish))
                  => t \in 1..N - 1
        /\ SignsAre(<<-1, -1, 1, 1, -1>>)
              => crossovers.bullish = <<2>> /\ crossovers.bearish = <<4>>

C2_Witness ==
    /\ pc = "crossed"
    /\ SignsAre(<<-1, -1, 1, 1, -1>>)
    /\ crossovers.bullish = <<2>>
    /\ crossovers.bearish = <<4>>

\* C3: a step whose previous or current difference is exactly zero is never
\* reported, and a frame in which no two consecutive differences have strictly
\* opposite signs has empty bullish and bearish results.
C3_TiesNeverCross ==
    pc = "crossed" =>
        /\ \A i \in 1..N - 1 :
              (Tie(i - 1) \/ Tie(i))
                  => ~InSeq(i, crossovers.bullish) /\ ~InSeq(i, crossovers.bearish)
        /\ (\A i \in 1..N - 1 : ~(Below(i - 1) /\ Above(i)) /\ ~(Above(i - 1) /\ Below(i)))
              => crossovers.bullish = <<>> /\ crossovers.bearish = <<>>

C3_Witness ==
    /\ pc = "crossed"
    /\ SignsAre(<<-1, 0, 1>>)
    /\ crossovers.bullish = <<>>
    /\ crossovers.bearish = <<>>

\* C4: the bullish and bearish results share no timestamp and each is strictly
\* ascending (so without repetition), in index order.
C4_DisjointAscending ==
    crossovers.called =>
        /\ \A j \in 1..Len(crossovers.bullish) :
              ~InSeq(crossovers.bullish[j], crossovers.bearish)
        /\ StrictlyAscending(crossovers.bullish)
        /\ StrictlyAscending(crossovers.bearish)

C4_Witness ==
    /\ pc = "crossed"
    /\ Len(crossovers.bullish) >= 2
    /\ Len(crossovers.bearish) >= 2

ErrorLines(stream) == {j \in 1..Len(stream) : stream[j].kind = "error"}
Names(line, ticker) == \E k \in 1..Len(line.tokens) : line.tokens[k] = ticker

\* C5: when the provider raises or returns None or an empty series, the run emits
\* a message containing the ticker and ends with exit status 1, and no later stage
\* has run: no indicators, no summary, no CSV, no chart.
C5_FailureStopsRun ==
    provider \in {"raised", "none", "empty"} =>
        /\ pc = "exit"
        /\ exit_status = "1"
        /\ \/ \E j \in ErrorLines(stdout) : Names(stdout[j], args.ticker)
           \/ \E j \in ErrorLines(stderr) : Names(stderr[j], args.ticker)
        /\ df.MA_20 = <<>> /\ df.MA_50 = <<>> /\ df.Daily_Return = <<>>
        /\ \A j \in 1..Len(stdout) : stdout[j].kind = "error"
        /\ csv_file = NoCsv
        /\ chart = NoChart
        /\ crossovers = NoCrossovers

C5_Witness ==
    /\ provider = "empty"
    /\ pc = "exit"
    /\ args.ticker = "TCS.NS"
    /\ args.save_csv # None

\* C6: on a failure to retrieve data the error message is on stderr and not on
\* stdout when the process exits with status 1.
C6_ErrorOnStderr ==
    exit_status = "1" =>
        /\ ErrorLines(stderr) # {}
        /\ ErrorLines(stdout) = {}

\* C7: for a strictly increasing close series, MA_20[i] <= close[i] for all i and
\* the bearish result is empty.
C7_IncreasingSeries ==
    (pc = "done" /\ StrictlyAscending(df.Close)) =>
        /\ \A p \in 1..N : FLe(df.MA_20[p], Rat(df.Close[p], 1))
        /\ crossovers.bearish = <<>>

\* the 60-point series close[i] = 100 + i
C7_Witness ==
    /\ pc = "done"
    /\ N = 60
    /\ \A i \in 0..59 : df.Close[i + 1] = 100 + i
    /\ crossovers.bearish = <<>>

\* C8: Daily_Return[0] is undefined and Daily_Return[i] = (close[i] - close[i-1])
\* / close[i-1] for i >= 1; the summary's last five returns and its volatility
\* sample leave the first entry out.
C8_DailyReturn ==
    pc = "summarised" =>
        LET s == stdout[Len(stdout)].data
            k == Len(s.last_returns)
        IN  /\ df.Daily_Return[1].nan
            /\ \A i \in 1..N - 1 :
                  /\ ~df.Daily_Return[i + 1].nan
                  /\ df.Daily_Return[i + 1].num * df.Close[i]
                        = (df.Close[i + 1] - df.Close[i]) * df.Daily_Return[i + 1].den
            /\ Len(s.vol_sample) = N - 1
            /\ \A j \in 1..N - 1 : s.vol_sample[j] = df.Daily_Return[j + 1]
            /\ k = Min(5, N - 1)
            /\ \A j \in 1..k :
                  s.last_returns[j] = round(df.Daily_Return[N - k + j], 4)

C8_Witness ==
    /\ pc = "summarised"
    /\ N >= 7
    /\ \A p \in 2..N : df.Close[p] # df.Close[p - 1]

\* the scatter call made for one direction's list
ShowsLast(sc, stamps) ==
    LET k == Len(stamps)
        m == Min(3, k)
    IN  IF k = 0 THEN ~sc.called /\ sc.x = <<>>
        ELSE /\ sc.called
             /\ Len(sc.x) = m
             /\ Len(sc.y) = m
             /\ \A j \in 1..m :
                   /\ sc.x[j] = stamps[k - m + j]
                   /\ sc.y[j] = df.Close[stamps[k - m + j] + 1]

\* C9: for each direction, plot_data hands the chart exactly the last min(3, k)
\* entries of that direction's list of length k, in order, and no marker when
\* the list is empty.
C9_LastThreeMarkers ==
    pc = "plotted" =>
        /\ ShowsLast(chart.bullish, crossovers.bullish)
        /\ ShowsLast(chart.bearish, crossovers.bearish)

C9_Witness ==
    /\ pc = "plotted"
    /\ Len(crossovers.bullish) >= 4
    /\ chart.bullish.x = <<3, 5, 7>>

\* C10: on the output of compute_indicators MA_20[i] = MA_50[i] for every
\* i <= 19, no crossover is reported at an index <= 20, and a series of fewer
\* than 22 points has no crossovers.
C10_NoEarlyCrossover ==
    pc = "done" =>
        /\ \A i \in 0..Min(19, N - 1) : FEq(df.MA_20[i + 1], df.MA_50[i + 1])
        /\ \A i \in 0..Min(20, N - 1) :
              ~InSeq(i, crossovers.bullish) /\ ~InSeq(i, crossovers.bearish)
        /\ N < 22 => crossovers.bullish = <<>> /\ crossovers.bearish = <<>>

\* a crossover at index 21, the first index where one can be
C10_Witness ==
    /\ pc = "done"
    /\ N >= 22
    /\ crossovers.bullish = <<21>>

====
